---------------------------- MODULE Spec2Model ----------------------------
(***************************************************************************)
(* State-machine model of the TCA9534 / PCA9534 I2C GPIO-expander driver   *)
(* (src/TCA9534.py): class TCA9534 (the expander with its three cached     *)
(* register bytes) and class DigitalInOut (the per-pin view).              *)
(*                                                                         *)
(* Every method is one action.  A method body is translated as a function  *)
(* from a "frame" (the values the handler can see and change while it      *)
(* runs) to a frame, so that a method calling another method is function   *)
(* composition, exactly in the order of the statements of the source.      *)
(***************************************************************************)
EXTENDS Integers, Sequences, FiniteSets, TLC

VARIABLES
    tca,          \* the TCA9534 instance: its _output, _inversion, _configuration
    dev,          \* the device's OUTPUT, INVERSION, CONFIGURATION registers
    constructed,  \* TRUE once TCA9534.__init__ has returned normally
    bus,          \* the I2C transactions issued by the most recent call, in order
    call,         \* the most recent call: [op, pin, val]
    result,       \* "ok", or the exception the most recent call raised
    ret,          \* <<v>> when the most recent call returned v, else << >>
    nops,         \* number of driver calls made since construction
    threads       \* the threads inside the value setter, the guard and the bus lock

vars == <<tca, dev, constructed, bus, call, result, ret, nops, threads>>

---------------------------------------------------------------------------
(* Register addresses, src/TCA9534.py lines 32-35.                         *)
_TCA9534_REGISTER_INPUT_PORT == 0
_TCA9534_REGISTER_OUTPUT_PORT == 1
_TCA9534_REGISTER_INVERSION == 2
_TCA9534_REGISTER_CONFIGURATION == 3

(* Bounds of the exploration.                                              *)
MaxOps == 1              \* driver calls explored after construction

Pins == 0..7
PinArgs == (0 - 1)..8                   \* arguments tried on get_pin
MaskSamples == {0, 90, 165, 421}        \* 0x00, 0x5A, 0xA5, 0x1A5 (wider than a byte)
InputSamples == {90, 165}               \* bytes the INPUT register may read as
(* Register contents <<OUTPUT, INVERSION, CONFIGURATION>> the device may   *)
(* hold when the driver is constructed.                                    *)
DevSamples == { <<255, 0, 255>>,        \* power-on defaults
                <<60, 129, 102>>,       \* 0x3C, 0x81, 0x66
                <<0, 255, 0>>,
                <<165, 90, 15>>,        \* 0xA5, 0x5A, 0x0F
                <<1, 254, 128>>,
                <<170, 85, 240>> }      \* 0xAA, 0x55, 0xF0
(* The same, with every byte value occurring in each register.             *)
DevBytes == { <<b, 255 - b, (b + 85) % 256>> : b \in 0..255 }
Directions == {"INPUT", "OUTPUT"}       \* digitalio.Direction.INPUT / .OUTPUT
DirectionArgs == Directions \cup {"OTHER"}

---------------------------------------------------------------------------
(* Python's integer operators on non-negative integers.                    *)
RECURSIVE BitAnd(_, _)
BitAnd(a, b) ==
    IF a = 0 \/ b = 0 THEN 0
    ELSE (a % 2) * (b % 2) + 2 * BitAnd(a \div 2, b \div 2)

RECURSIVE BitOr(_, _)
BitOr(a, b) ==
    IF a = 0 THEN b
    ELSE IF b = 0 THEN a
    ELSE (IF a % 2 = 1 \/ b % 2 = 1 THEN 1 ELSE 0) + 2 * BitOr(a \div 2, b \div 2)

Shl(a, n) == a * (2 ^ n)          \* a << n
Shr(a, n) == a \div (2 ^ n)       \* a >> n
(* a & ~m for a, m >= 0: ~m is -(m+1), whose two's complement has a 0      *)
(* exactly where m has a 1, so the result is a with the bits of m removed. *)
AndNot(a, m) == a - BitAnd(a, m)

(* Bit i of byte x, for stating properties.                                *)
Bit(x, i) == (x \div (2 ^ i)) % 2
BoolBit(b) == IF b THEN 1 ELSE 0

---------------------------------------------------------------------------
(* The frame of a running call.  fault = k > 0: the k-th bus transaction   *)
(* of this call fails (the transport raises OSError); fault = 0: none      *)
(* fails.  input: what the device's INPUT register reads as during the     *)
(* call.  exc: the exception being propagated, "none" while running.       *)
Frame(fault, input) ==
    [ _output |-> tca._output, _inversion |-> tca._inversion,
      _configuration |-> tca._configuration,
      dev |-> dev, bus |-> << >>, exc |-> "none", ret |-> << >>, buf |-> 0,
      fault |-> fault, input |-> input ]

(* What the device answers when register reg is read.                      *)
DevRead(s, reg) ==
    IF reg = _TCA9534_REGISTER_INPUT_PORT THEN s.input ELSE s.dev[reg]

(* i2c.write(bytearray([reg, val])): a failed write raises and leaves the  *)
(* device register as it was (the device did not acknowledge).             *)
i2c_write(s, reg, val) ==
    IF s.exc # "none" THEN s
    ELSE LET tx == Append(s.bus, <<"write", reg, val>>) IN
         IF Len(tx) = s.fault
         THEN [s EXCEPT !.bus = tx, !.exc = "OSError"]
         ELSE [s EXCEPT !.bus = tx, !.dev[reg] = val]

(* i2c.write_then_readinto(bytearray([reg]), buffer): buffer is one of the *)
(* frame's byte fields; a failed transaction raises and leaves it alone.   *)
i2c_write_then_readinto(s, reg, buffer) ==
    IF s.exc # "none" THEN s
    ELSE LET tx == Append(s.bus, <<"write_then_readinto", reg>>) IN
         IF Len(tx) = s.fault
         THEN [s EXCEPT !.bus = tx, !.exc = "OSError"]
         ELSE [s EXCEPT !.bus = tx, ![buffer] = DevRead(s, reg)]

Return(s, v) == IF s.exc # "none" THEN s ELSE [s EXCEPT !.ret = <<v>>]
Raise(s, e) == IF s.exc # "none" THEN s ELSE [s EXCEPT !.exc = e]

---------------------------------------------------------------------------
(* class TCA9534                                                           *)

(* __init__, lines 38-54.                                                  *)
(* Mutant: the reset writes issued OUTPUT first.                           *)
init_reset_output_first(s) ==
    i2c_write(
      i2c_write(
        i2c_write(s, _TCA9534_REGISTER_OUTPUT_PORT, 255),
        _TCA9534_REGISTER_INVERSION, 0),
      _TCA9534_REGISTER_CONFIGURATION, 255)

init_reset(s) ==
    i2c_write(
      i2c_write(
        i2c_write(s, _TCA9534_REGISTER_CONFIGURATION, 255),
        _TCA9534_REGISTER_INVERSION, 0),
      _TCA9534_REGISTER_OUTPUT_PORT, 255)

(* Mutant: INVERSION and CONFIGURATION are read into each other's cache.   *)
init_readback_crossed(s) ==
    i2c_write_then_readinto(
      i2c_write_then_readinto(
        i2c_write_then_readinto(s, _TCA9534_REGISTER_OUTPUT_PORT, "_output"),
        _TCA9534_REGISTER_INVERSION, "_configuration"),
      _TCA9534_REGISTER_CONFIGURATION, "_inversion")

init_readback(s) ==
    i2c_write_then_readinto(
      i2c_write_then_readinto(
        i2c_write_then_readinto(s, _TCA9534_REGISTER_OUTPUT_PORT, "_output"),
        _TCA9534_REGISTER_INVERSION, "_inversion"),
      _TCA9534_REGISTER_CONFIGURATION, "_configuration")

(* Mutant: the reset writes are issued whatever reset says.                *)
init_ignoring_reset(s, reset) ==
    LET s0 == [s EXCEPT !._output = 0, !._inversion = 0, !._configuration = 0]
    IN  init_readback(init_reset(s0))

__init__(s, reset) ==
    LET s0 == [s EXCEPT !._output = 0, !._inversion = 0, !._configuration = 0]
        s1 == IF reset THEN init_reset(s0) ELSE s0
    IN  init_readback(s1)

(* Mutant: a failed read is swallowed and the zeroed buffer is returned.   *)
read_gpio_fallback(s) ==
    LET s1 == i2c_write_then_readinto([s EXCEPT !.buf = 0],
                                      _TCA9534_REGISTER_INPUT_PORT, "buf")
    IN  Return([s1 EXCEPT !.exc = "none"], s1.buf)

(* read_gpio, lines 56-60.                                                 *)
read_gpio(s) ==
    LET s1 == i2c_write_then_readinto([s EXCEPT !.buf = 0],
                                      _TCA9534_REGISTER_INPUT_PORT, "buf")
    IN  Return(s1, s1.buf)

(* write_gpio, lines 62-65: the cache is assigned first, then the bus      *)
(* write is issued.                                                        *)
write_gpio(s, val) ==
    IF s.exc # "none" THEN s
    ELSE LET s1 == [s EXCEPT !._output = BitAnd(val, 255)]
         IN  i2c_write(s1, _TCA9534_REGISTER_OUTPUT_PORT, s1._output)

(* set_iodir, lines 67-70.                                                 *)
(* Mutant: the register is written but the cache is not updated.           *)
set_iodir_uncached(s, val) ==
    i2c_write(s, _TCA9534_REGISTER_CONFIGURATION, BitAnd(val, 255))

set_iodir(s, val) ==
    IF s.exc # "none" THEN s
    ELSE LET s1 == [s EXCEPT !._configuration = BitAnd(val, 255)]
         IN  i2c_write(s1, _TCA9534_REGISTER_CONFIGURATION, s1._configuration)

(* get_iodir, lines 72-73; get_inv, lines 75-76.                           *)
(* Mutant: the getter re-reads the register over the bus.                  *)
get_iodir_reread(s) ==
    LET s1 == i2c_write_then_readinto(s, _TCA9534_REGISTER_CONFIGURATION,
                                      "_configuration")
    IN  Return(s1, s1._configuration)

get_iodir(s) == Return(s, s._configuration)
get_inv(s) == Return(s, s._inversion)

(* set_inv, lines 78-81.                                                   *)
set_inv(s, val) ==
    IF s.exc # "none" THEN s
    ELSE LET s1 == [s EXCEPT !._inversion = BitAnd(val, 255)]
         IN  i2c_write(s1, _TCA9534_REGISTER_INVERSION, s1._inversion)

(* Mutant: the upper limit of the assertion is off by one.                 *)
get_pin_upto8(s, pin) ==
    IF 0 <= pin /\ pin <= 8 THEN Return(s, pin) ELSE Raise(s, "AssertionError")

(* get_pin, lines 83-85: the handle returned is the pair (pin, this tca);  *)
(* it is represented by its pin number.                                    *)
get_pin(s, pin) ==
    IF 0 <= pin /\ pin <= 7 THEN Return(s, pin) ELSE Raise(s, "AssertionError")

(* write_pin, lines 87-91: both branches first evaluate self.output, an    *)
(* attribute the class never defines (the cache is self._output), so the   *)
(* argument expression raises AttributeError before write_gpio is called.  *)
write_pin(s, pin, val) == Raise(s, "AttributeError")

(* read_pin, lines 93-94.                                                  *)
read_pin(s, pin) ==
    LET s1 == read_gpio(s)
    IN  IF s1.exc # "none" THEN s1
        ELSE Return(s1, BitAnd(Shr(s1.ret[1], pin), 1))

---------------------------------------------------------------------------
(* class DigitalInOut: self._pin is the parameter pin, self._tca the       *)
(* expander of the frame.                                                  *)

(* Mutant: the direction is changed before the latch is written.           *)
switch_to_output_iodir_first(s, pin, value) ==
    LET s1 == set_iodir(s, AndNot(Shr(BitAnd(s._configuration, Shl(1, pin)), pin),
                                  Shl(1, pin)))
    IN  IF value
        THEN write_gpio(s1, BitOr(s1._output, Shl(1, pin)))
        ELSE write_gpio(s1, AndNot(s1._output, Shl(1, pin)))

(* Mutant: the latch is written but the direction is never changed.        *)
switch_to_output_latch_only(s, pin, value) ==
    IF value
    THEN write_gpio(s, BitOr(s._output, Shl(1, pin)))
    ELSE write_gpio(s, AndNot(s._output, Shl(1, pin)))

(* switch_to_output, lines 101-106.                                        *)
switch_to_output(s, pin, value) ==
    LET s1 == IF value
              THEN write_gpio(s, BitOr(s._output, Shl(1, pin)))
              ELSE write_gpio(s, AndNot(s._output, Shl(1, pin)))
    IN  set_iodir(s1, AndNot(Shr(BitAnd(s1._configuration, Shl(1, pin)), pin),
                             Shl(1, pin)))

(* switch_to_input, lines 108-109.                                         *)
switch_to_input(s, pin) ==
    set_iodir(s, BitOr(Shr(BitAnd(s._configuration, Shl(1, pin)), pin),
                       Shl(1, pin)))

(* Mutant: for a pin configured as output the cached latch bit is returned.*)
value_get_cached(s, pin) ==
    IF Bit(s._configuration, pin) = 0
    THEN Return(s, Bit(s._output, pin))
    ELSE LET s1 == read_gpio(s)
         IN  IF s1.exc # "none" THEN s1
             ELSE Return(s1, Shr(BitAnd(s1.ret[1], Shl(1, pin)), pin))

(* value getter, lines 111-113.                                            *)
value_get(s, pin) ==
    LET s1 == read_gpio(s)
    IN  IF s1.exc # "none" THEN s1
        ELSE Return(s1, Shr(BitAnd(s1.ret[1], Shl(1, pin)), pin))

(* value setter, lines 115-120.                                            *)
(* Mutant: a pin configured as input is rejected.                          *)
value_set_output_only(s, pin, val) ==
    IF Bit(s._configuration, pin) = 1
    THEN Raise(s, "ValueError")
    ELSE IF val
    THEN write_gpio(s, BitOr(s._output, Shl(1, pin)))
    ELSE write_gpio(s, AndNot(s._output, Shl(1, pin)))

(* Mutant: the pin's mask is written without merging the cached byte.      *)
value_set_unmerged(s, pin, val) ==
    IF val
    THEN write_gpio(s, Shl(1, pin))
    ELSE write_gpio(s, AndNot(255, Shl(1, pin)))

value_set(s, pin, val) ==
    IF val
    THEN write_gpio(s, BitOr(s._output, Shl(1, pin)))
    ELSE write_gpio(s, AndNot(s._output, Shl(1, pin)))

(* direction getter, lines 122-127.                                        *)
direction_get(s, pin) ==
    IF Shr(BitAnd(s._configuration, Shl(1, pin)), pin) # 0
    THEN Return(s, "INPUT")
    ELSE Return(s, "OUTPUT")

(* Mutant: anything that is not INPUT is taken as OUTPUT.                  *)
direction_set_else_output(s, pin, val) ==
    IF val = "INPUT"
    THEN set_iodir(s, BitOr(Shr(BitAnd(s._configuration, Shl(1, pin)), pin),
                            Shl(1, pin)))
    ELSE set_iodir(s, AndNot(Shr(BitAnd(s._configuration, Shl(1, pin)), pin),
                             Shl(1, pin)))

(* direction setter, lines 129-136.                                        *)
direction_set(s, pin, val) ==
    IF val = "INPUT"
    THEN set_iodir(s, BitOr(Shr(BitAnd(s._configuration, Shl(1, pin)), pin),
                            Shl(1, pin)))
    ELSE IF val = "OUTPUT"
    THEN set_iodir(s, AndNot(Shr(BitAnd(s._configuration, Shl(1, pin)), pin),
                             Shl(1, pin)))
    ELSE Raise(s, "ValueError")

(* invert_polarity getter, line 140: >> binds tighter than &, so the       *)
(* expression is _inversion[0] & ((1 << pin) >> pin).                      *)
invert_polarity_get(s, pin) ==
    Return(s, BitAnd(s._inversion, Shr(Shl(1, pin), pin)))

(* invert_polarity setter, lines 142-147.                                  *)
(* Mutant: the mask is recomputed with the shift sequence of lines 132/134.*)
invert_polarity_set_shifted(s, pin, val) ==
    IF val
    THEN set_inv(s, BitOr(Shr(BitAnd(get_inv(s).ret[1], Shl(1, pin)), pin),
                          Shl(1, pin)))
    ELSE set_inv(s, AndNot(Shr(BitAnd(get_inv(s).ret[1], Shl(1, pin)), pin),
                           Shl(1, pin)))

invert_polarity_set(s, pin, val) ==
    IF val
    THEN set_inv(s, BitOr(get_inv(s).ret[1], Shl(1, pin)))
    ELSE set_inv(s, AndNot(get_inv(s).ret[1], Shl(1, pin)))

---------------------------------------------------------------------------
(* The state machine.                                                      *)

NoArg == 0 - 1
(* No thread is inside a call: every method runs to completion in a step.  *)
NoThreads == [guarded |-> FALSE, lock |-> 0, buslock |-> 0, t |-> << >>]

Init ==
    /\ dev \in DevSamples
    /\ tca = [_output |-> 0, _inversion |-> 0, _configuration |-> 0]
    /\ constructed = FALSE
    /\ bus = << >>
    /\ call = [op |-> "none", pin |-> NoArg, val |-> NoArg]
    /\ result = "ok"
    /\ ret = << >>
    /\ nops = 0
    /\ threads = NoThreads

(* The effect of a call whose frame ended as s.                            *)
Commit(op, pin, val, s) ==
    /\ tca' = [_output |-> s._output, _inversion |-> s._inversion,
               _configuration |-> s._configuration]
    /\ dev' = s.dev
    /\ bus' = s.bus
    /\ call' = [op |-> op, pin |-> pin, val |-> val]
    /\ result' = IF s.exc = "none" THEN "ok" ELSE s.exc
    /\ ret' = IF s.exc = "none" THEN s.ret ELSE << >>
    /\ UNCHANGED threads

(* A call on the constructed expander or on one of its pin handles.        *)
Call(op, pin, val, s) ==
    /\ constructed
    /\ nops < MaxOps
    /\ Commit(op, pin, val, s)
    /\ nops' = nops + 1
    /\ UNCHANGED constructed

(* TCA9534(i2c, address, reset), called once for the device: an exception  *)
(* leaves no instance, and nothing more is called.                         *)
Construct(reset, fault) ==
    /\ ~constructed
    /\ call.op = "none"
    /\ LET s == __init__(Frame(fault, 0), reset)
       IN  /\ Commit("__init__", NoArg, reset, s)
           /\ constructed' = (s.exc = "none")
    /\ nops' = 0

Do_read_gpio(fault, input) ==
    Call("read_gpio", NoArg, NoArg, read_gpio(Frame(fault, input)))
Do_write_gpio(val, fault) ==
    Call("write_gpio", NoArg, val, write_gpio(Frame(fault, 0), val))
Do_set_iodir(val, fault) ==
    Call("set_iodir", NoArg, val, set_iodir(Frame(fault, 0), val))
Do_get_iodir ==
    Call("get_iodir", NoArg, NoArg, get_iodir(Frame(0, 0)))
Do_get_inv ==
    Call("get_inv", NoArg, NoArg, get_inv(Frame(0, 0)))
Do_set_inv(val, fault) ==
    Call("set_inv", NoArg, val, set_inv(Frame(fault, 0), val))
Do_get_pin(pin) ==
    Call("get_pin", pin, NoArg, get_pin(Frame(0, 0), pin))
Do_write_pin(pin, val) ==
    Call("write_pin", pin, val, write_pin(Frame(0, 0), pin, val))
Do_read_pin(pin, fault, input) ==
    Call("read_pin", pin, NoArg, read_pin(Frame(fault, input), pin))
Do_switch_to_output(pin, value, fault) ==
    Call("switch_to_output", pin, value, switch_to_output(Frame(fault, 0), pin, value))
Do_switch_to_input(pin, fault) ==
    Call("switch_to_input", pin, NoArg, switch_to_input(Frame(fault, 0), pin))
Do_value_get(pin, fault, input) ==
    Call("value_get", pin, NoArg, value_get(Frame(fault, input), pin))
Do_value_set(pin, val, fault) ==
    Call("value_set", pin, val, value_set(Frame(fault, 0), pin, val))
Do_direction_get(pin) ==
    Call("direction_get", pin, NoArg, direction_get(Frame(0, 0), pin))
Do_direction_set(pin, val, fault) ==
    Call("direction_set", pin, val, direction_set(Frame(fault, 0), pin, val))
Do_invert_polarity_get(pin) ==
    Call("invert_polarity_get", pin, NoArg, invert_polarity_get(Frame(0, 0), pin))
Do_invert_polarity_set(pin, val, fault) ==
    Call("invert_polarity_set", pin, val, invert_polarity_set(Frame(fault, 0), pin, val))

Next ==
    \/ \E reset \in BOOLEAN, fault \in 0..6 : Construct(reset, fault)
    \/ \E fault \in 0..1, input \in InputSamples : Do_read_gpio(fault, input)
    \/ \E val \in MaskSamples, fault \in 0..1 : Do_write_gpio(val, fault)
    \/ \E val \in MaskSamples, fault \in 0..1 : Do_set_iodir(val, fault)
    \/ Do_get_iodir
    \/ Do_get_inv
    \/ \E val \in MaskSamples, fault \in 0..1 : Do_set_inv(val, fault)
    \/ \E pin \in PinArgs : Do_get_pin(pin)
    \/ \E pin \in Pins, val \in BOOLEAN : Do_write_pin(pin, val)
    \/ \E pin \in Pins, fault \in 0..1, input \in InputSamples :
          Do_read_pin(pin, fault, input)
    \/ \E pin \in Pins, value \in BOOLEAN, fault \in 0..2 :
          Do_switch_to_output(pin, value, fault)
    \/ \E pin \in Pins, fault \in 0..1 : Do_switch_to_input(pin, fault)
    \/ \E pin \in Pins, fault \in 0..1, input \in InputSamples :
          Do_value_get(pin, fault, input)
    \/ \E pin \in Pins, val \in BOOLEAN, fault \in 0..1 : Do_value_set(pin, val, fault)
    \/ \E pin \in Pins : Do_direction_get(pin)
    \/ \E pin \in Pins, val \in DirectionArgs, fault \in 0..1 :
          Do_direction_set(pin, val, fault)
    \/ \E pin \in Pins : Do_invert_polarity_get(pin)
    \/ \E pin \in Pins, val \in BOOLEAN, fault \in 0..1 :
          Do_invert_polarity_set(pin, val, fault)

Spec == Init /\ [][Next]_vars

(* The pin handle's setters alone, without bus faults, from a device whose *)
(* registers may hold any byte.                                            *)
InitBytes ==
    /\ dev \in DevBytes
    /\ tca = [_output |-> 0, _inversion |-> 0, _configuration |-> 0]
    /\ constructed = FALSE
    /\ bus = << >>
    /\ call = [op |-> "none", pin |-> NoArg, val |-> NoArg]
    /\ result = "ok"
    /\ ret = << >>
    /\ nops = 0
    /\ threads = NoThreads

NextBytes ==
    \/ \E reset \in BOOLEAN : Construct(reset, 0)
    \/ \E pin \in Pins, value \in BOOLEAN : Do_switch_to_output(pin, value, 0)
    \/ \E pin \in Pins : Do_switch_to_input(pin, 0)
    \/ \E pin \in Pins, val \in BOOLEAN : Do_value_set(pin, val, 0)
    \/ \E pin \in Pins, val \in Directions : Do_direction_set(pin, val, 0)
    \/ \E pin \in Pins, val \in BOOLEAN : Do_invert_polarity_set(pin, val, 0)

SpecBytes == InitBytes /\ [][NextBytes]_vars

(* set_iodir with every mask of a byte (and one wider), and get_iodir.     *)
NextIodir ==
    \/ \E reset \in BOOLEAN : Construct(reset, 0)
    \/ \E val \in 0..255 \cup MaskSamples : Do_set_iodir(val, 0)
    \/ Do_get_iodir

SpecIodir == Init /\ [][NextIodir]_vars

---------------------------------------------------------------------------
(* Two threads, each calling the value setter of its own pin handle on the *)
(* same constructed expander.  The call is cut at its accesses to shared   *)
(* state: the read of the cached byte for the argument (line 118 / 120),   *)
(* the store to the cache (line 63), the entry of the bus context (line    *)
(* 64), the read of the cached byte for the bus write and the bus write    *)
(* (line 65).  With threads.guarded the whole call runs under an external  *)
(* mutual-exclusion guard, taken by Enter and released by Leave.           *)
Threads == 1..2

ThreadStep(i, pc) ==
    /\ threads.t[i].pc = pc
    /\ UNCHANGED <<constructed, call, result, ret, nops>>

(* The external guard (not part of the driver): entered before the call.   *)
Enter(i) ==
    /\ ThreadStep(i, "idle")
    /\ threads.guarded => threads.lock = 0
    /\ threads' = [threads EXCEPT !.lock = IF threads.guarded THEN i ELSE @,
                                  !.t[i].pc = "args"]
    /\ UNCHANGED <<tca, dev, bus>>

(* Mutant: the argument is the pin's mask alone.                           *)
T_args_unmerged(i) ==
    /\ ThreadStep(i, "args")
    /\ threads' = [threads EXCEPT
          !.t[i].arg = IF threads.t[i].val
                       THEN Shl(1, threads.t[i].pin)
                       ELSE AndNot(255, Shl(1, threads.t[i].pin)),
          !.t[i].pc = "store"]
    /\ UNCHANGED <<tca, dev, bus>>

(* value setter, lines 117-120: the argument of write_gpio is evaluated.   *)
T_args(i) ==
    /\ ThreadStep(i, "args")
    /\ threads' = [threads EXCEPT
          !.t[i].arg = IF threads.t[i].val
                       THEN BitOr(tca._output, Shl(1, threads.t[i].pin))
                       ELSE AndNot(tca._output, Shl(1, threads.t[i].pin)),
          !.t[i].pc = "store"]
    /\ UNCHANGED <<tca, dev, bus>>

(* write_gpio, line 63.                                                    *)
T_store(i) ==
    /\ ThreadStep(i, "store")
    /\ tca' = [tca EXCEPT !._output = BitAnd(threads.t[i].arg, 255)]
    /\ threads' = [threads EXCEPT !.t[i].pc = "with"]
    /\ UNCHANGED <<dev, bus>>

(* write_gpio, line 64: the bus context is entered once the bus is free.   *)
T_with(i) ==
    /\ ThreadStep(i, "with")
    /\ threads.buslock = 0
    /\ threads' = [threads EXCEPT !.buslock = i, !.t[i].pc = "load"]
    /\ UNCHANGED <<tca, dev, bus>>

(* write_gpio, line 65: bytearray([register, self._output[0]]) is built.   *)
T_load(i) ==
    /\ ThreadStep(i, "load")
    /\ threads' = [threads EXCEPT !.t[i].out = tca._output, !.t[i].pc = "write"]
    /\ UNCHANGED <<tca, dev, bus>>

(* write_gpio, line 65: i2c.write, and the bus context is left.            *)
T_write(i) ==
    /\ ThreadStep(i, "write")
    /\ dev' = [dev EXCEPT ![_TCA9534_REGISTER_OUTPUT_PORT] = threads.t[i].out]
    /\ bus' = Append(bus, <<"write", _TCA9534_REGISTER_OUTPUT_PORT, threads.t[i].out>>)
    /\ threads' = [threads EXCEPT !.buslock = 0, !.t[i].pc = "exit"]
    /\ UNCHANGED tca

(* The external guard is released after the call has returned.             *)
Leave(i) ==
    /\ ThreadStep(i, "exit")
    /\ threads' = [threads EXCEPT !.lock = IF threads.guarded THEN 0 ELSE @,
                                  !.t[i].pc = "done"]
    /\ UNCHANGED <<tca, dev, bus>>

(* A constructed expander whose cache holds the device registers; thread 1 *)
(* has the lower of the two distinct pins.                                 *)
InitThreads ==
    /\ dev \in DevSamples
    /\ tca = [_output |-> dev[_TCA9534_REGISTER_OUTPUT_PORT],
              _inversion |-> dev[_TCA9534_REGISTER_INVERSION],
              _configuration |-> dev[_TCA9534_REGISTER_CONFIGURATION]]
    /\ constructed = TRUE
    /\ bus = << >>
    /\ call = [op |-> "none", pin |-> NoArg, val |-> NoArg]
    /\ result = "ok"
    /\ ret = << >>
    /\ nops = 0
    /\ \E g \in BOOLEAN, p \in Pins, q \in Pins, v \in BOOLEAN, w \in BOOLEAN :
          /\ p < q
          /\ threads = [guarded |-> g, lock |-> 0, buslock |-> 0,
                        t |-> << [pc |-> "idle", pin |-> p, val |-> v, arg |-> 0, out |-> 0],
                                 [pc |-> "idle", pin |-> q, val |-> w, arg |-> 0, out |-> 0] >>]

NextThreads ==
    \/ \E i \in Threads : Enter(i)
    \/ \E i \in Threads : T_args(i)
    \/ \E i \in Threads : T_store(i)
    \/ \E i \in Threads : T_with(i)
    \/ \E i \in Threads : T_load(i)
    \/ \E i \in Threads : T_write(i)
    \/ \E i \in Threads : Leave(i)

SpecThreads == InitThreads /\ [][NextThreads]_vars

---------------------------------------------------------------------------
(* Properties.                                                             *)

(* The cache holds what the device's three registers hold.                 *)
Coherent ==
    /\ tca._output = dev[_TCA9534_REGISTER_OUTPUT_PORT]
    /\ tca._inversion = dev[_TCA9534_REGISTER_INVERSION]
    /\ tca._configuration = dev[_TCA9534_REGISTER_CONFIGURATION]

(* byte x with bit pin forced to 1 / to 0, bit by bit.                     *)
WithBit(x, pin, b) ==
    x - Bit(x, pin) * (2 ^ pin) + b * (2 ^ pin)

(* C1: a construction that succeeds leaves the cache equal to the device   *)
(* registers, and every call that completes without an exception, made     *)
(* while cache and registers agree, leaves them in agreement: so they      *)
(* agree after any sequence of successfully completed calls.               *)
C1_CacheCoherence ==
    [][(constructed' /\ result' = "ok" /\ (constructed => Coherent)) => Coherent']_vars

C1_Witness ==
    /\ constructed /\ nops = 1 /\ result = "ok"
    /\ call.op = "switch_to_output" /\ call.pin = 2
    /\ Coherent
    /\ tca._output = 251 /\ tca._configuration = 1

(* C2: setting pin p to Output through the handle leaves the cached        *)
(* configuration bit of every other pin as it was.                         *)
C2_OutputKeepsOtherPins ==
    [][( /\ result' = "ok"
         /\ \/ call'.op = "switch_to_output"
            \/ (call'.op = "direction_set" /\ call'.val = "OUTPUT") )
       => \A q \in Pins \ {call'.pin} :
             Bit(tca'._configuration, q) = Bit(tca._configuration, q)]_vars

(* C3: setting pin p to Input through the handle writes and caches the     *)
(* prior configuration byte with bit p set to 1.                           *)
C3_InputSetsOnlyBitP ==
    [][( /\ result' = "ok"
         /\ \/ call'.op = "switch_to_input"
            \/ (call'.op = "direction_set" /\ call'.val = "INPUT") )
       => /\ tca'._configuration = WithBit(tca._configuration, call'.pin, 1)
          /\ dev'[_TCA9534_REGISTER_CONFIGURATION]
                = WithBit(tca._configuration, call'.pin, 1)]_vars

(* C4: the handle's value setter leaves the cached output byte with bit p  *)
(* equal to the value set and every other bit as it was.                   *)
C4_SetValueFrame ==
    [][(call'.op = "value_set" /\ result' = "ok")
       => /\ tca'._output \in 0..255
          /\ \A q \in Pins :
                Bit(tca'._output, q)
                  = IF q = call'.pin THEN BoolBit(call'.val) ELSE Bit(tca._output, q)]_vars

C4_Witness ==
    /\ call.op = "value_set" /\ result = "ok"
    /\ call.pin = 5 /\ call.val = FALSE
    /\ tca._output = 201 /\ dev[_TCA9534_REGISTER_OUTPUT_PORT] = 201

(* C5: write_pin(pin, value) completes without error and leaves the cached *)
(* output and the OUTPUT register holding the prior cached output with bit *)
(* pin set or cleared.                                                     *)
C5_WritePinWrites ==
    [][call'.op = "write_pin"
       => /\ result' = "ok"
          /\ tca'._output = WithBit(tca._output, call'.pin, BoolBit(call'.val))
          /\ dev'[_TCA9534_REGISTER_OUTPUT_PORT] = tca'._output]_vars

(* C6: the handle's invert_polarity getter returns bit p of the cached     *)
(* inversion mask; so after the setter has set pin p to v, the getter on   *)
(* pin p returns v.                                                        *)
C6_GetInvertPolarityIsBitP ==
    /\ (call.op = "invert_polarity_get" /\ result = "ok")
          => ret = <<Bit(tca._inversion, call.pin)>>
    /\ (call.op = "invert_polarity_set" /\ result = "ok")
          => invert_polarity_get(Frame(0, 0), call.pin).ret = <<BoolBit(call.val)>>

(* C7: the handle's invert_polarity setter sets (True) or clears (False)   *)
(* exactly bit p of the cached inversion mask.                             *)
C7_SetInvertPolarityFrame ==
    [][(call'.op = "invert_polarity_set" /\ result' = "ok")
       => /\ tca'._inversion \in 0..255
          /\ \A q \in Pins :
                Bit(tca'._inversion, q)
                  = IF q = call'.pin THEN BoolBit(call'.val)
                    ELSE Bit(tca._inversion, q)]_vars

C7_Witness ==
    /\ call.op = "invert_polarity_set" /\ result = "ok"
    /\ call.pin = 6 /\ call.val = TRUE
    /\ tca._inversion = 214 /\ dev[_TCA9534_REGISTER_INVERSION] = 214

(* C8: when the bus write of write_gpio, set_iodir or set_inv fails, the   *)
(* three cached bytes are as they were before the call.                    *)
C8_FailedWriteKeepsCache ==
    [][(call'.op \in {"write_gpio", "set_iodir", "set_inv"} /\ result' = "OSError")
       => tca' = tca]_vars

(* C9: after set_iodir(m) with m in 0..255, get_iodir() returns m, issues  *)
(* no bus transaction and changes no cached byte.                          *)
C9_IodirRoundTrip ==
    (call.op = "set_iodir" /\ result = "ok" /\ call.val \in 0..255)
       => LET g == get_iodir(Frame(0, 0))
          IN  /\ g.exc = "none"
              /\ g.ret = <<call.val>>
              /\ g.bus = << >>
              /\ g._configuration = tca._configuration
              /\ g.dev = dev

C9_Witness ==
    /\ call.op = "set_iodir" /\ result = "ok" /\ call.val = 183
    /\ get_iodir(Frame(0, 0)).ret = <<183>>

(* The bus traffic of a construction with reset.                           *)
ResetTraffic ==
    << <<"write", _TCA9534_REGISTER_CONFIGURATION, 255>>,
       <<"write", _TCA9534_REGISTER_INVERSION, 0>>,
       <<"write", _TCA9534_REGISTER_OUTPUT_PORT, 255>>,
       <<"write_then_readinto", _TCA9534_REGISTER_OUTPUT_PORT>>,
       <<"write_then_readinto", _TCA9534_REGISTER_INVERSION>>,
       <<"write_then_readinto", _TCA9534_REGISTER_CONFIGURATION>> >>

(* C10: a construction with reset=True issues exactly the writes           *)
(* CONFIGURATION=0xFF, INVERSION=0x00, OUTPUT=0xFF and then the reads of   *)
(* OUTPUT, INVERSION, CONFIGURATION, in this order; one cut short by a bus *)
(* fault has issued a prefix of them, ending at the failed transaction.    *)
C10_ResetTraffic ==
    (call.op = "__init__" /\ call.val = TRUE)
       => /\ Len(bus) <= Len(ResetTraffic)
          /\ bus = SubSeq(ResetTraffic, 1, Len(bus))
          /\ (result = "ok" => bus = ResetTraffic)

C10_Witness ==
    /\ call.op = "__init__" /\ call.val = TRUE /\ result = "ok" /\ constructed
    /\ Len(bus) = 6
    /\ dev = <<255, 0, 255>>

(* The bus traffic of the read-back that ends every construction.          *)
ReadbackTraffic ==
    << <<"write_then_readinto", _TCA9534_REGISTER_OUTPUT_PORT>>,
       <<"write_then_readinto", _TCA9534_REGISTER_INVERSION>>,
       <<"write_then_readinto", _TCA9534_REGISTER_CONFIGURATION>> >>

(* C11: a construction with reset=False issues no write and exactly the    *)
(* reads of OUTPUT, INVERSION, CONFIGURATION in this order (a prefix of    *)
(* them when cut short by a bus fault); the device registers are unchanged *)
(* and, when it succeeds, the cache holds what they held.                  *)
C11_NoResetTraffic ==
    [][(call'.op = "__init__" /\ call'.val = FALSE)
       => /\ dev' = dev
          /\ Len(bus') <= Len(ReadbackTraffic)
          /\ bus' = SubSeq(ReadbackTraffic, 1, Len(bus'))
          /\ result' = "ok"
               => /\ bus' = ReadbackTraffic
                  /\ tca'._output = dev[_TCA9534_REGISTER_OUTPUT_PORT]
                  /\ tca'._inversion = dev[_TCA9534_REGISTER_INVERSION]
                  /\ tca'._configuration = dev[_TCA9534_REGISTER_CONFIGURATION]]_vars

C11_Witness ==
    /\ call.op = "__init__" /\ call.val = FALSE /\ result = "ok" /\ constructed
    /\ Len(bus) = 3
    /\ dev = <<60, 129, 102>>
    /\ tca = [_output |-> 60, _inversion |-> 129, _configuration |-> 102]

(* C12: after a successful construction with reset=True, whatever the      *)
(* registers held before, get_iodir() returns 0xFF, get_inv() returns 0x00 *)
(* and the cached output byte is 0xFF.                                     *)
C12_ResetDefaults ==
    (call.op = "__init__" /\ call.val = TRUE /\ result = "ok")
       => /\ get_iodir(Frame(0, 0)).ret = <<255>>
          /\ get_inv(Frame(0, 0)).ret = <<0>>
          /\ tca._output = 255

C12_Witness ==
    /\ call.op = "__init__" /\ call.val = TRUE /\ result = "ok" /\ constructed
    /\ get_iodir(Frame(0, 0)).ret = <<255>>
    /\ get_inv(Frame(0, 0)).ret = <<0>>
    /\ Coherent

(* C13: switch_to_output(value=v) on pin p leaves cached output bit p      *)
(* equal to v and cached configuration bit p equal to 0, and the direction *)
(* getter on pin p then returns OUTPUT.                                    *)
C13_SwitchToOutput ==
    (call.op = "switch_to_output" /\ result = "ok")
       => /\ Bit(tca._output, call.pin) = BoolBit(call.val)
          /\ Bit(tca._configuration, call.pin) = 0
          /\ direction_get(Frame(0, 0), call.pin).ret = <<"OUTPUT">>

C13_Witness ==
    /\ call.op = "switch_to_output" /\ result = "ok"
    /\ call.pin = 3 /\ call.val = TRUE
    /\ tca._output = 8
    /\ Bit(tca._configuration, 3) = 0
    /\ direction_get(Frame(0, 0), 3).ret = <<"OUTPUT">>

(* C14: when the read of the INPUT register fails, read_gpio and read_pin  *)
(* raise the bus error, return no value, and leave the three cached bytes  *)
(* (and the device registers) as they were.                                *)
C14_FailedInputRead ==
    [][( /\ call'.op \in {"read_gpio", "read_pin"}
         /\ \/ \E input \in InputSamples : Do_read_gpio(1, input)
            \/ \E pin \in Pins, input \in InputSamples : Do_read_pin(pin, 1, input) )
       => /\ result' = "OSError"
          /\ ret' = << >>
          /\ bus' = << <<"write_then_readinto", _TCA9534_REGISTER_INPUT_PORT>> >>
          /\ tca' = tca
          /\ dev' = dev]_vars

C14_Witness ==
    /\ call.op = "read_pin" /\ call.pin = 4 /\ result = "OSError"
    /\ ret = << >>
    /\ bus = << <<"write_then_readinto", _TCA9534_REGISTER_INPUT_PORT>> >>
    /\ tca = [_output |-> 165, _inversion |-> 90, _configuration |-> 15]

(* C15: get_pin(pin) with pin outside 0..7 raises the assertion error,     *)
(* issues no bus transaction and changes no cached byte; with pin in 0..7  *)
(* it returns the handle bound to that pin.                                *)
C15_GetPinRange ==
    [][call'.op = "get_pin"
       => /\ bus' = << >>
          /\ tca' = tca
          /\ dev' = dev
          /\ IF call'.pin \in Pins
             THEN result' = "ok" /\ ret' = <<call'.pin>>
             ELSE result' = "AssertionError" /\ ret' = << >>]_vars

C15_Witness ==
    /\ call.op = "get_pin" /\ call.pin = 8
    /\ result = "AssertionError" /\ ret = << >> /\ bus = << >>

(* C16: the direction setter given a value that is neither INPUT nor       *)
(* OUTPUT raises ValueError, issues no bus transaction and leaves the      *)
(* three cached bytes unchanged.                                           *)
C16_DirectionRejectsOther ==
    [][(call'.op = "direction_set" /\ call'.val \notin Directions)
       => /\ result' = "ValueError"
          /\ ret' = << >>
          /\ bus' = << >>
          /\ tca' = tca
          /\ dev' = dev]_vars

C16_Witness ==
    /\ call.op = "direction_set" /\ call.val = "OTHER" /\ call.pin = 2
    /\ result = "ValueError" /\ bus = << >>
    /\ tca = [_output |-> 60, _inversion |-> 129, _configuration |-> 102]

(* C17: within switch_to_output the first transaction is the OUTPUT write  *)
(* carrying the initial value in bit p, and the CONFIGURATION write that   *)
(* clears bit p comes second, if at all; there is no other transaction.    *)
C17_LatchBeforeDirection ==
    call.op = "switch_to_output"
       => /\ Len(bus) \in 1..2
          /\ bus[1][1] = "write"
          /\ bus[1][2] = _TCA9534_REGISTER_OUTPUT_PORT
          /\ Bit(bus[1][3], call.pin) = BoolBit(call.val)
          /\ Len(bus) = 2
               => /\ bus[2][1] = "write"
                  /\ bus[2][2] = _TCA9534_REGISTER_CONFIGURATION
                  /\ Bit(bus[2][3], call.pin) = 0
          /\ result = "ok" => Len(bus) = 2

C17_Witness ==
    /\ call.op = "switch_to_output" /\ result = "ok"
    /\ call.pin = 7 /\ call.val = TRUE
    /\ bus = << <<"write", _TCA9534_REGISTER_OUTPUT_PORT, 129>>,
                <<"write", _TCA9534_REGISTER_CONFIGURATION, 1>> >>

(* C18: the value getter issues exactly one read of the INPUT register on  *)
(* every call, whatever the pin's direction, returns bit p of the byte     *)
(* read, and changes no cached byte.                                       *)
C18_ValueGetReadsLive ==
    [][ /\ \A pin \in Pins, input \in InputSamples :
              (call'.op = "value_get" /\ Do_value_get(pin, 0, input))
                 => result' = "ok" /\ ret' = <<Bit(input, pin)>>
        /\ call'.op = "value_get"
              => /\ bus' = << <<"write_then_readinto", _TCA9534_REGISTER_INPUT_PORT>> >>
                 /\ tca' = tca
                 /\ dev' = dev ]_vars

(* A pin configured as output whose latch bit is 0 reads as 1.             *)
C18_Witness ==
    /\ call.op = "value_get" /\ result = "ok" /\ call.pin = 0
    /\ Bit(tca._configuration, 0) = 0
    /\ Bit(tca._output, 0) = 0
    /\ ret = <<1>>
    /\ bus = << <<"write_then_readinto", _TCA9534_REGISTER_INPUT_PORT>> >>

(* C19: the value setter on a pin whose cached configuration bit is 1      *)
(* (input) is not rejected: it sets the latch bit, writes the OUTPUT       *)
(* register, and leaves the cached configuration and inversion bytes and   *)
(* the device's CONFIGURATION and INVERSION registers unchanged.           *)
C19_SetValueOnInputPin ==
    [][(call'.op = "value_set" /\ Bit(tca._configuration, call'.pin) = 1)
       => /\ result' = "ok"
          /\ Bit(tca'._output, call'.pin) = BoolBit(call'.val)
          /\ bus' = << <<"write", _TCA9534_REGISTER_OUTPUT_PORT, tca'._output>> >>
          /\ dev'[_TCA9534_REGISTER_OUTPUT_PORT] = tca'._output
          /\ tca'._configuration = tca._configuration
          /\ tca'._inversion = tca._inversion
          /\ dev'[_TCA9534_REGISTER_CONFIGURATION] = dev[_TCA9534_REGISTER_CONFIGURATION]
          /\ dev'[_TCA9534_REGISTER_INVERSION] = dev[_TCA9534_REGISTER_INVERSION]]_vars

C19_Witness ==
    /\ call.op = "value_set" /\ result = "ok"
    /\ call.pin = 4 /\ call.val = TRUE
    /\ tca = [_output |-> 255, _inversion |-> 0, _configuration |-> 255]
    /\ bus = << <<"write", _TCA9534_REGISTER_OUTPUT_PORT, 255>> >>
    /\ Coherent

(* C20: when each of two threads runs its whole value-setter call on its   *)
(* own pin under the external guard, every interleaving ends with the      *)
(* cached output bits of both pins equal to the commanded values and the   *)
(* cache equal to the device OUTPUT register, which the second of the two  *)
(* bus writes carried.                                                     *)
(* Without the guard a final state that has lost one of the two updates    *)
(* is reachable (C20_Witness).                                             *)
AllDone == Len(threads.t) = 2 /\ \A i \in Threads : threads.t[i].pc = "done"

C20_GuardedNoLostUpdate ==
    (AllDone /\ threads.guarded)
       => /\ \A i \in Threads :
                Bit(tca._output, threads.t[i].pin) = BoolBit(threads.t[i].val)
          /\ tca._output = dev[_TCA9534_REGISTER_OUTPUT_PORT]
          /\ Len(bus) = 2
          /\ bus[2] = <<"write", _TCA9534_REGISTER_OUTPUT_PORT, tca._output>>

(* Unguarded, both calls returned, and thread 1's commanded TRUE on pin 2  *)
(* is missing from the cache although thread 2's FALSE on pin 5 is there.  *)
C20_Witness ==
    /\ AllDone
    /\ ~threads.guarded
    /\ threads.t[1].pin = 2 /\ threads.t[1].val = TRUE
    /\ threads.t[2].pin = 5 /\ threads.t[2].val = FALSE
    /\ Bit(tca._output, 2) = 0
    /\ Bit(tca._output, 5) = 0
    /\ tca._output = dev[_TCA9534_REGISTER_OUTPUT_PORT]

===========================================================================
